---- MODULE Spec2Model ----
(***************************************************************************)
(* Model of the AI Terminal Assistant (src/ai_terminal): the safety rule   *)
(* engine, the generation orchestrator and the process_query pipeline.     *)
(*                                                                         *)
(* Python str values are TLA+ strings; TLC evaluates Len, SubSeq and \o on *)
(* them, so a regular expression of the source is an operator that tests   *)
(* the characters of the text position by position.  Optional[T] is the    *)
(* empty tuple (None) or a one-element tuple (a value).                    *)
(***************************************************************************)
EXTENDS Integers, Sequences, FiniteSets, TLC

VARIABLES
    safety_filter,   \* the SafetyFilter object: [strict_mode]
    command,         \* the Command object handed to the operation under study
    before,          \* the Command as it was when the call was made
    ret,             \* what the last call returned (None before any call)
    assistant,       \* the AITerminalAssistant: [config, context, ai_engine]
    request,         \* the arguments of the process_query call
    calls,           \* the calls made so far, in order, with their results
    pc               \* where the program stands

vars == <<safety_filter, command, before, ret, assistant, request, calls, pc>>

None == <<>>
Some(v) == <<v>>
IsNone(o) == o = <<>>
Val(o) == o[1]

(***************************************************************************)
(* Bounds of the model.                                                    *)
(***************************************************************************)
\* command texts are concatenations of at most MaxWords words of Words
MaxWords == 2

(***************************************************************************)
(* Strings.                                                                *)
(***************************************************************************)
\* s[i] of Python (1-based here); "" outside the text
At(s, i) == IF i >= 1 /\ i <= Len(s) THEN SubSeq(s, i, i) ELSE ""

\* s[i-1:] of Python
From(s, i) == SubSeq(s, i, Len(s))

\* the literal lit stands in s at position i
Lit(s, i, lit) ==
    /\ i >= 1
    /\ i + Len(lit) - 1 <= Len(s)
    /\ SubSeq(s, i, i + Len(lit) - 1) = lit

\* Python: lit in s
Contains(s, lit) == \E i \in 1..(Len(s) + 1) : Lit(s, i, lit)

\* Python: s.startswith(lit)
StartsWith(s, lit) == Lit(s, 1, lit)

\* the upper-case letters and their lower-case forms
LowerOf ==
    [c \in {"A", "B", "C", "D", "E", "F", "G", "H", "I", "J", "K", "L", "M",
            "N", "O", "P", "Q", "R", "S", "T", "U", "V", "W", "X", "Y", "Z"}
     |-> CASE c = "A" -> "a" [] c = "B" -> "b" [] c = "C" -> "c"
           [] c = "D" -> "d" [] c = "E" -> "e" [] c = "F" -> "f"
           [] c = "G" -> "g" [] c = "H" -> "h" [] c = "I" -> "i"
           [] c = "J" -> "j" [] c = "K" -> "k" [] c = "L" -> "l"
           [] c = "M" -> "m" [] c = "N" -> "n" [] c = "O" -> "o"
           [] c = "P" -> "p" [] c = "Q" -> "q" [] c = "R" -> "r"
           [] c = "S" -> "s" [] c = "T" -> "t" [] c = "U" -> "u"
           [] c = "V" -> "v" [] c = "W" -> "w" [] c = "X" -> "x"
           [] c = "Y" -> "y" [] c = "Z" -> "z"]

\* one character folded to lower case (re.IGNORECASE, str.lower on ASCII)
LowerChar(c) == IF c \in DOMAIN LowerOf THEN LowerOf[c] ELSE c

\* str.lower
RECURSIVE Lower(_)
Lower(s) == IF s = "" THEN "" ELSE LowerChar(At(s, 1)) \o Lower(From(s, 2))

\* the class \s of re on str
IsSpace(c) == c \in {" ", "\t", "\n", "\r", "\f"}

\* the class [a-z]
IsLowerLetter(c) == \E u \in DOMAIN LowerOf : LowerOf[u] = c

\* positions p just after a run \s+ that starts at position i
AfterSpaces(s, i) ==
    {p \in (i + 1)..(Len(s) + 1) : \A k \in i..(p - 1) : IsSpace(At(s, k))}

\* positions p just after a run .* that starts at position i ('.' is any
\* character but a newline)
AfterAny(s, i) ==
    {p \in i..(Len(s) + 1) : \A k \in i..(p - 1) : At(s, k) # "\n"}

\* $ of re without MULTILINE: the end of the text, or just before a newline
\* that ends the text
AtEnd(s, i) == i = Len(s) + 1 \/ (i = Len(s) /\ At(s, i) = "\n")

\* s.strip(): the text without the white space at its two ends
RECURSIVE LStrip(_)
LStrip(s) == IF s # "" /\ IsSpace(At(s, 1)) THEN LStrip(From(s, 2)) ELSE s

RECURSIVE RStrip(_)
RStrip(s) ==
    IF s # "" /\ IsSpace(At(s, Len(s)))
    THEN RStrip(SubSeq(s, 1, Len(s) - 1))
    ELSE s

Strip(s) == RStrip(LStrip(s))

\* s.replace(old, new): every occurrence of old, left to right, not
\* overlapping
RECURSIVE Replace(_, _, _)
Replace(s, old, new) ==
    IF s = "" THEN ""
    ELSE IF StartsWith(s, old)
    THEN new \o Replace(From(s, Len(old) + 1), old, new)
    ELSE At(s, 1) \o Replace(From(s, 2), old, new)

\* s.replace(old, new, 1): the first occurrence of old alone
RECURSIVE ReplaceFirst(_, _, _)
ReplaceFirst(s, old, new) ==
    IF s = "" THEN ""
    ELSE IF StartsWith(s, old) THEN new \o From(s, Len(old) + 1)
    ELSE At(s, 1) \o ReplaceFirst(From(s, 2), old, new)

\* s.split("\n")[0]
RECURSIVE FirstLine(_)
FirstLine(s) ==
    IF s = "" \/ At(s, 1) = "\n" THEN "" ELSE At(s, 1) \o FirstLine(From(s, 2))

(***************************************************************************)
(* Regular expressions of fallback.py.  A pattern is the sequence of its   *)
(* elements:                                                               *)
(*   Lit(s)      the literal s                                             *)
(*   Alt(alts)   (?:a|b): one of the literals, tried in order              *)
(*   Opt(alts)   (?:a|b)?: one of the literals, else nothing               *)
(*   Run(c, g)   one or more characters of class c, greedy; g: a group     *)
(* MatchAt follows the backtracking order of re, so that the groups are    *)
(* those of the match re reports.                                          *)
(***************************************************************************)
LitEl(s) == [k |-> "lit", s |-> s]
AltEl(alts) == [k |-> "alt", alts |-> alts]
OptEl(alts) == [k |-> "opt", alts |-> alts]
RunEl(class, group) == [k |-> "run", class |-> class, group |-> group]

IsDigit(c) == c \in {"0", "1", "2", "3", "4", "5", "6", "7", "8", "9"}

\* "any" is '.', "digit" is \d, "space" is \s, "name" is [a-z0-9_-]
InClass(c, class) ==
    CASE class = "any" -> c # "" /\ c # "\n"
      [] class = "digit" -> IsDigit(c)
      [] class = "space" -> IsSpace(c)
      [] class = "name" -> IsLowerLetter(c) \/ IsDigit(c) \/ c \in {"_", "-"}

\* the position after the longest run of the class that starts at i
RECURSIVE RunEnd(_, _, _)
RunEnd(s, i, class) ==
    IF InClass(At(s, i), class) THEN RunEnd(s, i + 1, class) ELSE i

RECURSIVE MatchAt(_, _, _, _)
RECURSIVE TryAlts(_, _, _, _, _)
RECURSIVE TryEnds(_, _, _, _, _)

\* the groups of the match of elements k.. of re at position i, or None
MatchAt(re, k, s, i) ==
    IF k > Len(re) THEN Some(<<>>)
    ELSE CASE re[k].k = "lit" ->
                IF Lit(s, i, re[k].s)
                THEN MatchAt(re, k + 1, s, i + Len(re[k].s))
                ELSE None
           [] re[k].k \in {"alt", "opt"} -> TryAlts(re, k, s, i, 1)
           [] re[k].k = "run" -> TryEnds(re, k, s, i, RunEnd(s, i, re[k].class))

\* alternatives a.. of element k, then (for Opt) the empty alternative
TryAlts(re, k, s, i, a) ==
    IF a > Len(re[k].alts)
    THEN IF re[k].k = "opt" THEN MatchAt(re, k + 1, s, i) ELSE None
    ELSE LET rest == IF Lit(s, i, re[k].alts[a])
                     THEN MatchAt(re, k + 1, s, i + Len(re[k].alts[a]))
                     ELSE None
         IN  IF rest # None THEN rest ELSE TryAlts(re, k, s, i, a + 1)

\* the run of element k ending before p, then shorter ones
TryEnds(re, k, s, i, p) ==
    IF p <= i THEN None
    ELSE LET rest == MatchAt(re, k + 1, s, p) IN
         IF rest # None
         THEN IF re[k].group
              THEN Some(<<SubSeq(s, i, p - 1)>> \o Val(rest))
              ELSE rest
         ELSE TryEnds(re, k, s, i, p - 1)

\* re.search(re, s) from position i on: the groups of the leftmost match
RECURSIVE SearchFrom(_, _, _)
SearchFrom(re, s, i) ==
    IF i > Len(s) + 1 THEN None
    ELSE LET m == MatchAt(re, 1, s, i) IN
         IF m # None THEN m ELSE SearchFrom(re, s, i + 1)

\* re.search(re, s): the tuple of groups of the match (Some), or None
re_search(re, s) == SearchFrom(re, s, 1)

(***************************************************************************)
(* models.py                                                               *)
(***************************************************************************)
ShellType == {"powershell", "cmd", "bash", "zsh", "fish"}

CommandCategory ==
    {"safe", "dangerous", "interactive", "directory_change", "long_running"}

\* Command(raw_command, category = SAFE, confidence = 1.0, explanation = None);
\* confidence is kept in hundredths (1.0 is 100)
Command(raw_command, confidence, explanation) ==
    [raw_command |-> raw_command, category |-> "safe",
     confidence |-> confidence, explanation |-> explanation]

(***************************************************************************)
(* models.py: ShellContext, reduced to the fields the program reads when   *)
(* it generates a command.                                                 *)
(***************************************************************************)
ShellContext(shell_type, is_virtual_env, package_manager) ==
    [shell_type |-> shell_type, is_virtual_env |-> is_virtual_env,
     package_manager |-> package_manager]

(***************************************************************************)
(* shell_utils.py                                                          *)
(***************************************************************************)
\* detect_python_environment: the pairs (is_venv, package_manager) it returns
PythonEnvironments ==
    {<<TRUE, "pip">>, <<TRUE, "conda">>, <<TRUE, "poetry">>,
     <<TRUE, "pipenv">>, <<FALSE, "pip">>}

\* get_basic_commands: the table of the shell, in the order of the dict
get_basic_commands(shell_type) ==
    IF shell_type = "powershell"
    THEN << <<"list files", "Get-ChildItem">>,
            <<"show current directory", "Get-Location">>,
            <<"clear screen", "Clear-Host">>,
            <<"list processes", "Get-Process">>,
            <<"create file", "New-Item -ItemType File -Name">>,
            <<"create directory", "New-Item -ItemType Directory -Name">>,
            <<"remove file", "Remove-Item">>,
            <<"copy file", "Copy-Item">>,
            <<"move file", "Move-Item">>,
            <<"show file content", "Get-Content">>,
            <<"search text", "Select-String">>,
            <<"system info", "Get-ComputerInfo">> >>
    ELSE IF shell_type = "cmd"
    THEN << <<"list files", "dir">>,
            <<"show current directory", "cd">>,
            <<"clear screen", "cls">>,
            <<"list processes", "tasklist">>,
            <<"create file", "type nul >">>,
            <<"create directory", "mkdir">>,
            <<"remove file", "del">>,
            <<"copy file", "copy">>,
            <<"move file", "move">>,
            <<"show file content", "type">>,
            <<"search text", "findstr">>,
            <<"system info", "systeminfo">> >>
    ELSE << <<"list files", "ls -la">>,
            <<"show current directory", "pwd">>,
            <<"clear screen", "clear">>,
            <<"list processes", "ps aux">>,
            <<"create file", "touch">>,
            <<"create directory", "mkdir -p">>,
            <<"remove file", "rm">>,
            <<"copy file", "cp">>,
            <<"move file", "mv">>,
            <<"show file content", "cat">>,
            <<"search text", "grep">>,
            <<"system info", "uname -a">>,
            <<"disk usage", "df -h">>,
            <<"memory usage", "free -h">> >>

(***************************************************************************)
(* fallback.py                                                             *)
(***************************************************************************)
\* FallbackHandler._load_python_packages
python_packages ==
    <<"pandas", "numpy", "requests", "flask", "django",
      "tensorflow", "torch", "scikit-learn", "matplotlib",
      "pytest", "black", "mypy", "ruff", "poetry",
      "fastapi", "streamlit", "gradio", "jupyterlab",
      "google-generativeai", "openai", "anthropic",
      "langchain", "transformers", "pillow", "opencv-python">>

\* FallbackHandler._load_command_patterns: the pairs (pattern, template) in
\* the order of the dict
command_patterns == <<
    \* create (?:a )?file (?:named |called )?(.+)
    << <<LitEl("create "), OptEl(<<"a ">>), LitEl("file "),
         OptEl(<<"named ", "called ">>), RunEl("any", TRUE)>>,
       "touch {0}" >>,
    \* make (?:a )?(?:new )?directory (?:named |called )?(.+)
    << <<LitEl("make "), OptEl(<<"a ">>), OptEl(<<"new ">>),
         LitEl("directory "), OptEl(<<"named ", "called ">>),
         RunEl("any", TRUE)>>,
       "mkdir -p {0}" >>,
    \* delete (?:the )?file (.+)
    << <<LitEl("delete "), OptEl(<<"the ">>), LitEl("file "),
         RunEl("any", TRUE)>>,
       "rm {0}" >>,
    \* copy (.+) to (.+)
    << <<LitEl("copy "), RunEl("any", TRUE), LitEl(" to "),
         RunEl("any", TRUE)>>,
       "cp {0} {1}" >>,
    \* move (.+) to (.+)
    << <<LitEl("move "), RunEl("any", TRUE), LitEl(" to "),
         RunEl("any", TRUE)>>,
       "mv {0} {1}" >>,
    \* rename (.+) to (.+)
    << <<LitEl("rename "), RunEl("any", TRUE), LitEl(" to "),
         RunEl("any", TRUE)>>,
       "mv {0} {1}" >>,
    \* show (?:me )?(?:the )?current (?:working )?directory
    << <<LitEl("show "), OptEl(<<"me ">>), OptEl(<<"the ">>),
         LitEl("current "), OptEl(<<"working ">>), LitEl("directory")>>,
       "pwd" >>,
    \* list (?:all )?files?
    << <<LitEl("list "), OptEl(<<"all ">>), LitEl("file"), OptEl(<<"s">>)>>,
       "ls -la" >>,
    \* clear (?:the )?(?:terminal|screen)
    << <<LitEl("clear "), OptEl(<<"the ">>),
         AltEl(<<"terminal", "screen">>)>>,
       "clear" >>,
    \* show (?:running )?processes
    << <<LitEl("show "), OptEl(<<"running ">>), LitEl("processes")>>,
       "ps aux" >>,
    \* kill process (?:with )?(?:pid |id )?(\d+)
    << <<LitEl("kill process "), OptEl(<<"with ">>),
         OptEl(<<"pid ", "id ">>), RunEl("digit", TRUE)>>,
       "kill {0}" >>,
    \* ping (.+)
    << <<LitEl("ping "), RunEl("any", TRUE)>>, "ping -c 4 {0}" >>,
    \* check (?:the )?port (\d+)
    << <<LitEl("check "), OptEl(<<"the ">>), LitEl("port "),
         RunEl("digit", TRUE)>>,
       "netstat -an | grep {0}" >>,
    \* download (?:from )?(.+)
    << <<LitEl("download "), OptEl(<<"from ">>), RunEl("any", TRUE)>>,
       "wget {0}" >>,
    \* git status
    << <<LitEl("git status")>>, "git status" >>,
    \* git add (?:all|everything)
    << <<LitEl("git add "), AltEl(<<"all", "everything">>)>>, "git add ." >>,
    \* git commit (?:with message )?(.+)
    << <<LitEl("git commit "), OptEl(<<"with message ">>),
         RunEl("any", TRUE)>>,
       "git commit -m \"{0}\"" >>,
    \* git push
    << <<LitEl("git push")>>, "git push" >>,
    \* git pull
    << <<LitEl("git pull")>>, "git pull" >>
>>

\* template.format(*args) for templates whose fields are {0} and {1}
RECURSIVE format(_, _)
format(template, args) ==
    IF template = "" THEN ""
    ELSE IF StartsWith(template, "{0}")
    THEN args[1] \o format(From(template, 4), args)
    ELSE IF StartsWith(template, "{1}")
    THEN args[2] \o format(From(template, 4), args)
    ELSE At(template, 1) \o format(From(template, 2), args)

\* any(kw in query for kw in keywords)
AnyIn(keywords, query) ==
    \E k \in 1..Len(keywords) : Contains(query, keywords[k])

\* FallbackHandler._is_package_install
_is_package_install(query) ==
    LET install_keywords == <<"install", "add", "get", "setup", "pip", "conda">>
        package_keywords == <<"package", "module", "library", "dependency">>
    IN  \/ AnyIn(install_keywords, query) /\ AnyIn(package_keywords, query)
        \/ AnyIn(install_keywords, query) /\ AnyIn(python_packages, query)

\* the first loop of _handle_package_install, from package k on: the first
\* listed package whose name stands in the query
RECURSIVE KnownPackageFrom(_, _)
KnownPackageFrom(k, query) ==
    IF k > Len(python_packages) THEN None
    ELSE IF Contains(query, python_packages[k]) THEN Some(python_packages[k])
    ELSE KnownPackageFrom(k + 1, query)

\* the patterns of _handle_package_install: install\s+([a-z0-9_-]+),
\* add\s+([a-z0-9_-]+), get\s+([a-z0-9_-]+)
package_patterns == <<
    <<LitEl("install"), RunEl("space", FALSE), RunEl("name", TRUE)>>,
    <<LitEl("add"), RunEl("space", FALSE), RunEl("name", TRUE)>>,
    <<LitEl("get"), RunEl("space", FALSE), RunEl("name", TRUE)>>
>>

\* the second loop of _handle_package_install, from pattern k on
RECURSIVE ExtractedPackageFrom(_, _)
RECURSIVE ExtractedOrNext(_, _, _)
ExtractedPackageFrom(k, query) ==
    IF k > Len(package_patterns) THEN None
    ELSE ExtractedOrNext(k, query, re_search(package_patterns[k], query))

\* match.group(1) when pattern k matched, else the patterns after k
ExtractedOrNext(k, query, match) ==
    IF match # None THEN Some(Val(match)[1])
    ELSE ExtractedPackageFrom(k + 1, query)

\* the name of the package with the patterns tried before the list
PackageName_PatternsFirst(known, query) ==
    IF ExtractedPackageFrom(1, query) # None
    THEN ExtractedPackageFrom(1, query)
    ELSE known

\* the name of the package: the known one, else the extracted one
PackageName(known, query) ==
    IF known # None THEN known ELSE ExtractedPackageFrom(1, query)

\* the end of _handle_package_install with the manager looked at whether
\* a virtual environment is active or not
InstallCommand_ManagerOnly(package_name, context) ==
    IF package_name = None THEN None
    ELSE Some(Command(
            (IF context.package_manager = "conda"
             THEN "conda install -y "
             ELSE IF context.package_manager = "poetry"
             THEN "poetry add "
             ELSE IF context.package_manager = "pipenv"
             THEN "pipenv install "
             ELSE "pip install ") \o Val(package_name),
            80, Some("Install Python package: " \o Val(package_name))))

\* the end of _handle_package_install, once the name was looked for
InstallCommand(package_name, context) ==
    IF package_name = None THEN None
    ELSE Some(Command(
            (IF context.is_virtual_env
             THEN IF context.package_manager = "conda"
                  THEN "conda install -y "
                  ELSE IF context.package_manager = "poetry"
                  THEN "poetry add "
                  ELSE IF context.package_manager = "pipenv"
                  THEN "pipenv install "
                  ELSE "pip install "
             ELSE "pip install ") \o Val(package_name),
            80, Some("Install Python package: " \o Val(package_name))))

\* FallbackHandler._handle_package_install
_handle_package_install(query, context) ==
    InstallCommand(PackageName(KnownPackageFrom(1, query), query), context)

\* the replacement tables of _adjust_for_shell, in the order of the dicts
replacements(shell_type) ==
    IF shell_type = "powershell"
    THEN << <<"touch", "New-Item -ItemType File -Name">>,
            <<"rm", "Remove-Item">>,
            <<"cp", "Copy-Item">>,
            <<"mv", "Move-Item">>,
            <<"cat", "Get-Content">>,
            <<"grep", "Select-String">>,
            <<"ls -la", "Get-ChildItem -Force">>,
            <<"ps aux", "Get-Process">>,
            <<"clear", "Clear-Host">>,
            <<"pwd", "Get-Location">>,
            <<"mkdir -p", "New-Item -ItemType Directory -Force -Path">> >>
    ELSE << <<"touch", "type nul >">>,
            <<"rm", "del">>,
            <<"cp", "copy">>,
            <<"mv", "move">>,
            <<"cat", "type">>,
            <<"grep", "findstr">>,
            <<"ls -la", "dir /a">>,
            <<"ps aux", "tasklist">>,
            <<"clear", "cls">>,
            <<"pwd", "cd">>,
            <<"mkdir -p", "mkdir">> >>

\* the loop of _adjust_for_shell replacing every occurrence of the key
RECURSIVE AdjustFrom_ReplaceAll(_, _, _)
AdjustFrom_ReplaceAll(k, cmd, table) ==
    IF k > Len(table) THEN cmd
    ELSE IF StartsWith(cmd, table[k][1])
    THEN Replace(cmd, table[k][1], table[k][2])
    ELSE AdjustFrom_ReplaceAll(k + 1, cmd, table)

\* the loop of _adjust_for_shell from entry k of the table on
RECURSIVE AdjustFrom(_, _, _)
AdjustFrom(k, cmd, table) ==
    IF k > Len(table) THEN cmd
    ELSE IF StartsWith(cmd, table[k][1])
    THEN ReplaceFirst(cmd, table[k][1], table[k][2])
    ELSE AdjustFrom(k + 1, cmd, table)

\* FallbackHandler._adjust_for_shell
_adjust_for_shell(cmd, shell_type) ==
    IF shell_type \in {"powershell", "cmd"}
    THEN AdjustFrom(1, cmd, replacements(shell_type))
    ELSE cmd

\* every word of key stands somewhere in the query; word is the word of
\* key read so far
RECURSIVE AllWordsFrom(_, _, _)
AllWordsFrom(key, word, query) ==
    IF key = "" THEN Contains(query, word)
    ELSE IF At(key, 1) = " "
    THEN Contains(query, word) /\ AllWordsFrom(From(key, 2), "", query)
    ELSE AllWordsFrom(From(key, 2), word \o At(key, 1), query)

\* the loop over basic_commands with a key found as soon as each of its
\* words is in the query
RECURSIVE BasicFrom_Words(_, _, _)
BasicFrom_Words(k, basic_commands, query_lower) ==
    IF k > Len(basic_commands) THEN None
    ELSE IF AllWordsFrom(basic_commands[k][1], "", query_lower)
    THEN Some(Command(basic_commands[k][2], 60,
                      Some("Basic command for: " \o basic_commands[k][1])))
    ELSE BasicFrom_Words(k + 1, basic_commands, query_lower)

\* the loop over basic_commands from entry k on: the first key that stands
\* in the query
RECURSIVE BasicFrom(_, _, _)
BasicFrom(k, basic_commands, query_lower) ==
    IF k > Len(basic_commands) THEN None
    ELSE IF Contains(query_lower, basic_commands[k][1])
    THEN Some(Command(basic_commands[k][2], 60,
                      Some("Basic command for: " \o basic_commands[k][1])))
    ELSE BasicFrom(k + 1, basic_commands, query_lower)

\* the loop over command_patterns from entry k on: the first pattern found
\* in the query
RECURSIVE PatternFrom(_, _, _, _)
RECURSIVE FilledOrNext(_, _, _, _, _)
PatternFrom(k, query, query_lower, context) ==
    IF k > Len(command_patterns) THEN None
    ELSE FilledOrNext(k, query, query_lower, context,
                      re_search(command_patterns[k][1], query_lower))

\* the command of template k when pattern k matched, else the patterns
\* after k
FilledOrNext(k, query, query_lower, context, match) ==
    IF match # None
    THEN Some(Command(
            _adjust_for_shell(
                IF Val(match) # <<>>
                THEN format(command_patterns[k][2], Val(match))
                ELSE command_patterns[k][2],
                context.shell_type),
            70, Some("Pattern match for: " \o query)))
    ELSE PatternFrom(k + 1, query, query_lower, context)

\* the stages after the package stage without the scan of the patterns
BasicOrPattern_BasicOnly(query, query_lower, context, basic) == basic

\* the stages of generate_command after the package stage
BasicOrPattern(query, query_lower, context, basic) ==
    IF basic # None THEN basic
    ELSE PatternFrom(1, query, query_lower, context)

\* generate_command on the query folded to lower case and stripped
GenerateFrom(query, query_lower, context) ==
    IF _is_package_install(query_lower)
    THEN _handle_package_install(query_lower, context)
    ELSE BasicOrPattern(query, query_lower, context,
                        BasicFrom(1, get_basic_commands(context.shell_type),
                                  query_lower))

\* FallbackHandler.generate_command
FallbackHandler_generate_command(query, context) ==
    GenerateFrom(query, Strip(Lower(query)), context)

(***************************************************************************)
(* Calls and their outcomes.  An operation of the program returns a value  *)
(* or raises; either way it leaves the trace of the calls it has made to   *)
(* its collaborators, each with its argument and its result.               *)
(***************************************************************************)
Call(callee, arg, result) ==
    [callee |-> callee, arg |-> arg, result |-> result]

Return(value, made) == [raised |-> FALSE, value |-> value, calls |-> made]
Raise(made) == [raised |-> TRUE, value |-> None, calls |-> made]

\* the outcome of a call that returned result
Called(callee, arg, result) == Return(result, <<Call(callee, arg, result)>>)

\* the outcome of an operation that made the calls of made before it went on
\* to outcome
After(made, outcome) == [outcome EXCEPT !.calls = made \o @]

\* the outcome of a call of callee whose body came to outcome: a call that
\* returned is written to the trace with its result
Logged(callee, arg, outcome) ==
    IF outcome.raised THEN outcome
    ELSE [outcome EXCEPT !.calls = @ \o <<Call(callee, arg, outcome.value)>>]

(***************************************************************************)
(* The generative backend (google.generativeai) as the provider sees it:   *)
(* what configuring it does, what the probe gets, what a generation gets.  *)
(***************************************************************************)
\* genai.configure / genai.GenerativeModel: "ok" or "raise"; the probe
\* model.generate_content("echo test"): "raise", "none" or "response"
Backends == [configure : {"ok", "raise"}, probe : {"raise", "none", "response"}]

\* model.generate_content(prompt): an exception, no response object, or a
\* response with its text (None when the response carries no text)
BackendError == [k |-> "raise", text |-> None]
NoResponse == [k |-> "none", text |-> None]
Response(text) == [k |-> "response", text |-> text]

\* the code fence of markdown, three backquotes; a string of this notation
\* cannot hold a backquote, so the character ^ stands for it throughout
Fence == "^^^"

ResponseTexts ==
    {"", "   ", "ls -la", Fence \o "bash\nls -la\n" \o Fence, "rm -rf /",
     Fence \o "\nrm -rf /tmp\n" \o Fence, "  vim notes.txt \n",
     "cd /tmp\nls", "Shutdown now", Fence, "echo hi \n\nprints hi",
     Fence \o "powershell\nRemove-Item x -Recurse\n" \o Fence}

Replies ==
    {BackendError, NoResponse, Response(None)}
        \cup {Response(Some(t)) : t \in ResponseTexts}

\* the shell kinds a fence may be tagged with
FenceTags == {"bash", "powershell", "cmd", "zsh", "fish"}

\* responses that wrap a command in a tagged fence: text is the response,
\* first the first line of the wrapped command
FencedReplies ==
    {[text |-> lead \o Fence \o tag \o "\n" \o c[1] \o "\n" \o Fence
                    \o tail,
      tag |-> tag, first |-> c[2]] :
        lead \in {"", " \n"}, tag \in FenceTags,
        c \in {<<"ls -la", "ls -la">>, <<"cd /tmp\nls", "cd /tmp">>},
        tail \in {"", "\nlists the files"}}

(***************************************************************************)
(* config.py: Config, reduced to the fields the modelled code reads.       *)
(***************************************************************************)
Config(ai_provider, gemini_api_key, require_confirmation, enable_safety_filter) ==
    [ai_provider |-> ai_provider, gemini_api_key |-> gemini_api_key,
     openai_api_key |-> None, claude_api_key |-> None, model_name |-> None,
     require_confirmation |-> require_confirmation,
     enable_safety_filter |-> enable_safety_filter]

(***************************************************************************)
(* providers/gemini.py                                                     *)
(***************************************************************************)
\* GeminiProvider.__init__
GeminiProvider(api_key, model_name, configure) ==
    IF configure = "raise"
    THEN Raise(<<Call("GeminiProvider", api_key, "raise")>>)
    ELSE Return(Some([api_key |-> api_key,
                      model_name |-> IF model_name = None
                                     THEN "gemini-1.5-flash"
                                     ELSE Val(model_name)]),
                <<Call("GeminiProvider", api_key, "ok")>>)

\* GeminiProvider.is_available: the probe, with every exception caught
is_available(provider, probe) ==
    Called("provider.is_available", probe,
           IF probe = "raise" THEN FALSE ELSE probe # "none")

\* the first line of the cleaned text, when it has more than one
TakeFirstLine(command_text) ==
    IF Contains(command_text, "\n")
    THEN Strip(FirstLine(command_text))
    ELSE command_text

\* the clean-up of the response text in GeminiProvider.generate_command
CleanResponse(text) ==
    TakeFirstLine(
        Strip(Replace(Replace(Replace(Replace(Strip(text),
                                              Fence \o "bash", ""),
                                      Fence \o "powershell", ""),
                              Fence \o "cmd", ""),
                      Fence, "")))

(***************************************************************************)
(* The inputs of the model, and the functions above tabulated over them.  *)
(* A table holds, for each input of the model, the value of the function   *)
(* it is named after; outside the table the function itself is computed.   *)
(***************************************************************************)
\* get_shell_context: the contexts it may find
ShellContexts ==
    {ShellContext(s, e[1], e[2]) : s \in ShellType, e \in PythonEnvironments}

\* the queries put to the assistant
Queries ==
    {"", "hello", "install pandas", "Install the package foo", "pip module",
     "list all files", "create a file named Test.txt",
     "delete the file -rf /", "ping host", " Clear The Screen ",
     "download from x; shutdown", "show current directory",
     "git commit with message Fix {1}", "kill process with pid 42"}

FallbackTable ==
    [q \in Queries |->
        [c \in ShellContexts |-> FallbackHandler_generate_command(q, c)]]

\* self.fallback_handler.generate_command(query, context)
fallback_handler(query, context) ==
    IF query \in Queries /\ context \in ShellContexts
    THEN FallbackTable[query][context]
    ELSE FallbackHandler_generate_command(query, context)

CleanTable ==
    [t \in ResponseTexts \cup {f.text : f \in FencedReplies} |->
        CleanResponse(t)]

\* the clean-up of the response text
Cleaned(text) ==
    IF text \in DOMAIN CleanTable
    THEN CleanTable[text]
    ELSE CleanResponse(text)

\* the try block of GeminiProvider.generate_command: generate_content
\* raises, or its response is looked at and cleaned
TryGenerate(provider, query, context, reply) ==
    IF reply.k = "raise" THEN Raise(<<>>)
    ELSE IF reply.k = "none" \/ reply.text = None \/ Val(reply.text) = ""
    THEN Return(None, <<>>)
    ELSE Return(Some(Command(Cleaned(Val(reply.text)), 80,
                             Some("Generated from: " \o query))),
                <<>>)

\* the except clause of GeminiProvider.generate_command: an exception of the
\* try block becomes None
GenerateCaught(tried) ==
    IF tried.raised THEN Return(None, tried.calls) ELSE tried

\* generate_command without its except clause
GeminiProvider_generate_command_Uncaught(provider, query, context, reply) ==
    TryGenerate(provider, query, context, reply)

\* GeminiProvider.generate_command
GeminiProvider_generate_command(provider, query, context, reply) ==
    GenerateCaught(TryGenerate(provider, query, context, reply))

\* the texts of the commands that the generators of the model produce
GeneratedTexts ==
    {Val(FallbackTable[q][c]).raw_command :
        <<q, c>> \in {qc \in Queries \X ShellContexts :
                        FallbackTable[qc[1]][qc[2]] # None}}
        \cup {CleanTable[t] : t \in ResponseTexts}

(***************************************************************************)
(* safety.py: the patterns of the rules, on the text folded to lower case  *)
(* (every pattern is compiled with re.IGNORECASE).                         *)
(***************************************************************************)
\* rm\s+-rf\s+/?$ : the alternative \s of the closing group left out
RecursiveForceDelete_EndOnly(t) ==
    \E i \in 1..Len(t) :
        /\ Lit(t, i, "rm")
        /\ \E a \in AfterSpaces(t, i + 2) :
            /\ Lit(t, a, "-rf")
            /\ \E b \in AfterSpaces(t, a + 3) :
                \E c \in {b} \cup (IF Lit(t, b, "/") THEN {b + 1} ELSE {}) :
                    AtEnd(t, c)

\* rm\s+-rf\s+/?(?:\s|$)
RecursiveForceDelete(t) ==
    \E i \in 1..Len(t) :
        /\ Lit(t, i, "rm")
        /\ \E a \in AfterSpaces(t, i + 2) :
            /\ Lit(t, a, "-rf")
            /\ \E b \in AfterSpaces(t, a + 3) :
                \E c \in {b} \cup (IF Lit(t, b, "/") THEN {b + 1} ELSE {}) :
                    IsSpace(At(t, c)) \/ AtEnd(t, c)

\* :(){ :|:& };:   read by re as the alternation of ":(){ :" (with an empty
\* group) and ":& };:"
ForkBomb(t) == Contains(t, ":{ :") \/ Contains(t, ":& };:")

\* mkfs\.
FormatFilesystem(t) == Contains(t, "mkfs.")

\* dd\s+if=.*of=/dev/[sh]d
DirectDiskWrite(t) ==
    \E i \in 1..Len(t) :
        /\ Lit(t, i, "dd")
        /\ \E a \in AfterSpaces(t, i + 2) :
            /\ Lit(t, a, "if=")
            /\ \E b \in AfterAny(t, a + 3) :
                /\ Lit(t, b, "of=/dev/")
                /\ At(t, b + 8) \in {"s", "h"}
                /\ At(t, b + 9) = "d"

\* shutdown|poweroff|reboot|init\s+[06]
SystemShutdown(t) ==
    \/ Contains(t, "shutdown")
    \/ Contains(t, "poweroff")
    \/ Contains(t, "reboot")
    \/ \E i \in 1..Len(t) :
        /\ Lit(t, i, "init")
        /\ \E a \in AfterSpaces(t, i + 4) : At(t, a) \in {"0", "6"}

\* Stop-Computer|Restart-Computer
PowerShellControl(t) ==
    Contains(t, "stop-computer") \/ Contains(t, "restart-computer")

\* del\s+/[sf]|Remove-Item.*-Recurse
RecursiveDeletion(t) ==
    \/ \E i \in 1..Len(t) :
        /\ Lit(t, i, "del")
        /\ \E a \in AfterSpaces(t, i + 3) :
            Lit(t, a, "/") /\ At(t, a + 1) \in {"s", "f"}
    \/ \E i \in 1..Len(t) :
        /\ Lit(t, i, "remove-item")
        /\ \E a \in AfterAny(t, i + 11) : Lit(t, a, "-recurse")

\* format\s+[a-z]:
FormatDrive(t) ==
    \E i \in 1..Len(t) :
        /\ Lit(t, i, "format")
        /\ \E a \in AfterSpaces(t, i + 6) :
            IsLowerLetter(At(t, a)) /\ At(t, a + 1) = ":"

\* ^(nano|vim?|emacs|code|notepad)
TextEditor(t) ==
    \E w \in {"nano", "vi", "vim", "emacs", "code", "notepad"} :
        StartsWith(t, w)

\* ^(cd|pushd|popd|Set-Location)
DirectoryNavigation(t) ==
    \E w \in {"cd", "pushd", "popd", "set-location"} : StartsWith(t, w)

\* ^(ping|tracert|traceroute|tail\s+-f)
LongRunning(t) ==
    \/ \E w \in {"ping", "tracert", "traceroute"} : StartsWith(t, w)
    \/ StartsWith(t, "tail") /\ \E a \in AfterSpaces(t, 5) : Lit(t, a, "-f")

\* SafetyRule(pattern, category, description, severity); pattern is the
\* name of the operator that models the compiled expression
SafetyRule(pattern, category, description, severity) ==
    [pattern |-> pattern, category |-> category,
     description |-> description, severity |-> severity]

\* the rule list with the text-editor rule rated high instead of low
rules_EditorHigh == <<
    SafetyRule("RecursiveForceDelete", "dangerous",
               "Recursive force delete from root", "critical"),
    SafetyRule("ForkBomb", "dangerous", "Fork bomb", "critical"),
    SafetyRule("FormatFilesystem", "dangerous", "Format filesystem",
               "critical"),
    SafetyRule("DirectDiskWrite", "dangerous", "Direct disk write",
               "critical"),
    SafetyRule("SystemShutdown", "dangerous", "System shutdown/reboot",
               "high"),
    SafetyRule("PowerShellControl", "dangerous", "PowerShell system control",
               "high"),
    SafetyRule("RecursiveDeletion", "dangerous", "Recursive deletion",
               "medium"),
    SafetyRule("FormatDrive", "dangerous", "Format drive", "medium"),
    SafetyRule("TextEditor", "interactive", "Text editor", "high"),
    SafetyRule("DirectoryNavigation", "directory_change",
               "Directory navigation", "low"),
    SafetyRule("LongRunning", "long_running", "Long-running process", "low")
>>

\* SafetyFilter._initialize_rules: the ordered rule list
rules == <<
    SafetyRule("RecursiveForceDelete", "dangerous",
               "Recursive force delete from root", "critical"),
    SafetyRule("ForkBomb", "dangerous", "Fork bomb", "critical"),
    SafetyRule("FormatFilesystem", "dangerous", "Format filesystem",
               "critical"),
    SafetyRule("DirectDiskWrite", "dangerous", "Direct disk write",
               "critical"),
    SafetyRule("SystemShutdown", "dangerous", "System shutdown/reboot",
               "high"),
    SafetyRule("PowerShellControl", "dangerous", "PowerShell system control",
               "high"),
    SafetyRule("RecursiveDeletion", "dangerous", "Recursive deletion",
               "medium"),
    SafetyRule("FormatDrive", "dangerous", "Format drive", "medium"),
    SafetyRule("TextEditor", "interactive", "Text editor", "low"),
    SafetyRule("DirectoryNavigation", "directory_change",
               "Directory navigation", "low"),
    SafetyRule("LongRunning", "long_running", "Long-running process", "low")
>>

\* rule.pattern.search(command_str), given t, the text folded to lower case
search(rule, t) ==
    CASE rule.pattern = "RecursiveForceDelete" -> RecursiveForceDelete(t)
      [] rule.pattern = "ForkBomb" -> ForkBomb(t)
      [] rule.pattern = "FormatFilesystem" -> FormatFilesystem(t)
      [] rule.pattern = "DirectDiskWrite" -> DirectDiskWrite(t)
      [] rule.pattern = "SystemShutdown" -> SystemShutdown(t)
      [] rule.pattern = "PowerShellControl" -> PowerShellControl(t)
      [] rule.pattern = "RecursiveDeletion" -> RecursiveDeletion(t)
      [] rule.pattern = "FormatDrive" -> FormatDrive(t)
      [] rule.pattern = "TextEditor" -> TextEditor(t)
      [] rule.pattern = "DirectoryNavigation" -> DirectoryNavigation(t)
      [] rule.pattern = "LongRunning" -> LongRunning(t)

\* the loop of check_command from rule i on, over the folded text t
RECURSIVE FirstFrom(_, _)
FirstFrom(i, t) ==
    IF i > Len(rules) THEN None
    ELSE IF search(rules[i], t) THEN Some(rules[i])
    ELSE FirstFrom(i + 1, t)

\* check_command scanning the list from its end: the last match wins
RECURSIVE LastFrom(_, _)
LastFrom(i, t) ==
    IF i < 1 THEN None
    ELSE IF search(rules[i], t) THEN Some(rules[i])
    ELSE LastFrom(i - 1, t)

check_command_LastMatch(command_str) ==
    LastFrom(Len(rules), Lower(command_str))

\* check_command with patterns compiled without re.IGNORECASE
check_command_CaseSensitive(command_str) == FirstFrom(1, command_str)

\* check_command tabulated over the generated texts
RuleTable == [t \in GeneratedTexts |-> FirstFrom(1, Lower(t))]

\* SafetyFilter.check_command: the first rule of the list that matches
check_command(command_str) ==
    IF command_str \in DOMAIN RuleTable THEN RuleTable[command_str]
    ELSE FirstFrom(1, Lower(command_str))

\* validate_command without the check of the dangerous category
validate_command_SeverityOnly(strict_mode, cmd) ==
    LET found == check_command(cmd.raw_command) IN
    IF IsNone(found)
    THEN [command |-> [cmd EXCEPT !.category = "safe"],
          ret |-> <<TRUE, None>>]
    ELSE LET rule == Val(found)
             categorized == [cmd EXCEPT !.category = rule.category]
         IN  IF strict_mode /\ rule.severity \in {"critical", "high"}
             THEN [command |-> categorized,
                   ret |-> <<FALSE,
                             Some("Command blocked: " \o rule.description
                                  \o " (severity: " \o rule.severity
                                  \o ")")>>]
             ELSE [command |-> categorized, ret |-> <<TRUE, None>>]

\* validate_command that leaves the category alone when no rule matches
validate_command_KeepCategory(strict_mode, cmd) ==
    LET found == check_command(cmd.raw_command) IN
    IF IsNone(found)
    THEN [command |-> cmd, ret |-> <<TRUE, None>>]
    ELSE LET rule == Val(found)
             categorized == [cmd EXCEPT !.category = rule.category]
         IN  IF strict_mode /\ rule.severity \in {"critical", "high"}
             THEN [command |-> categorized,
                   ret |-> <<FALSE,
                             Some("Command blocked: " \o rule.description
                                  \o " (severity: " \o rule.severity
                                  \o ")")>>]
             ELSE IF rule.category = "dangerous"
             THEN [command |-> categorized,
                   ret |-> <<FALSE,
                             Some("Dangerous command blocked: "
                                  \o rule.description)>>]
             ELSE [command |-> categorized, ret |-> <<TRUE, None>>]

\* validate_command with "or" for "and" in the strict-mode test
validate_command_StrictOrSeverity(strict_mode, cmd) ==
    LET found == check_command(cmd.raw_command) IN
    IF IsNone(found)
    THEN [command |-> [cmd EXCEPT !.category = "safe"],
          ret |-> <<TRUE, None>>]
    ELSE LET rule == Val(found)
             categorized == [cmd EXCEPT !.category = rule.category]
         IN  IF strict_mode \/ rule.severity \in {"critical", "high"}
             THEN [command |-> categorized,
                   ret |-> <<FALSE,
                             Some("Command blocked: " \o rule.description
                                  \o " (severity: " \o rule.severity
                                  \o ")")>>]
             ELSE IF rule.category = "dangerous"
             THEN [command |-> categorized,
                   ret |-> <<FALSE,
                             Some("Dangerous command blocked: "
                                  \o rule.description)>>]
             ELSE [command |-> categorized, ret |-> <<TRUE, None>>]

\* validate_command whose second message names the category, not the rule
validate_command_NoDescription(strict_mode, cmd) ==
    LET found == check_command(cmd.raw_command) IN
    IF IsNone(found)
    THEN [command |-> [cmd EXCEPT !.category = "safe"],
          ret |-> <<TRUE, None>>]
    ELSE LET rule == Val(found)
             categorized == [cmd EXCEPT !.category = rule.category]
         IN  IF strict_mode /\ rule.severity \in {"critical", "high"}
             THEN [command |-> categorized,
                   ret |-> <<FALSE,
                             Some("Command blocked: " \o rule.description
                                  \o " (severity: " \o rule.severity
                                  \o ")")>>]
             ELSE IF rule.category = "dangerous"
             THEN [command |-> categorized,
                   ret |-> <<FALSE,
                             Some("Dangerous command blocked: "
                                  \o rule.category)>>]
             ELSE [command |-> categorized, ret |-> <<TRUE, None>>]

\* validate_command once check_command has returned found
Verdict(strict_mode, cmd, found) ==
    IF IsNone(found)
    THEN [command |-> [cmd EXCEPT !.category = "safe"],
          ret |-> <<TRUE, None>>]
    ELSE LET rule == Val(found)
             categorized == [cmd EXCEPT !.category = rule.category]
         IN  IF strict_mode /\ rule.severity \in {"critical", "high"}
             THEN [command |-> categorized,
                   ret |-> <<FALSE,
                             Some("Command blocked: " \o rule.description
                                  \o " (severity: " \o rule.severity
                                  \o ")")>>]
             ELSE IF rule.category = "dangerous"
             THEN [command |-> categorized,
                   ret |-> <<FALSE,
                             Some("Dangerous command blocked: "
                                  \o rule.description)>>]
             ELSE [command |-> categorized, ret |-> <<TRUE, None>>]

\* SafetyFilter.validate_command: the command after the call and the
\* returned tuple (is_safe, error_message)
validate_command(strict_mode, cmd) ==
    Verdict(strict_mode, cmd, check_command(cmd.raw_command))

(***************************************************************************)
(* ai_engine.py                                                            *)
(***************************************************************************)
AIProviderType == {"gemini", "openai", "claude"}

\* AIEngine.PROVIDERS: the registered provider classes
PROVIDERS == [t \in {"gemini"} |-> "GeminiProvider"]

\* AIEngine._get_api_key
_get_api_key(config, provider_type) ==
    CASE provider_type = "gemini" -> config.gemini_api_key
      [] provider_type = "openai" -> config.openai_api_key
      [] provider_type = "claude" -> config.claude_api_key

\* the end of the try block of _initialize_provider, once the provider
\* class was called: made is what the constructor came to
ProbeProvider(made, probe) ==
    IF made.raised THEN made
    ELSE After(made.calls,
               IF is_available(Val(made.value), probe).value
               THEN Return(made.value,
                           is_available(Val(made.value), probe).calls)
               ELSE Return(None,
                           is_available(Val(made.value), probe).calls))

\* the try block of _initialize_provider: what it returns, or that it raises
TryInitializeProvider(config, backend) ==
    IF config.ai_provider \notin AIProviderType THEN Raise(<<>>)
    ELSE IF config.ai_provider \notin DOMAIN PROVIDERS THEN Return(None, <<>>)
    ELSE IF \/ _get_api_key(config, config.ai_provider) = None
            \/ Val(_get_api_key(config, config.ai_provider)) = ""
    THEN Return(None, <<>>)
    ELSE ProbeProvider(
            GeminiProvider(Val(_get_api_key(config, config.ai_provider)),
                           config.model_name, backend.configure),
            backend.probe)

\* the except clause of _initialize_provider: an exception of the try block
\* becomes "no provider"
Caught(tried) == IF tried.raised THEN Return(None, tried.calls) ELSE tried

\* _initialize_provider without its except clause
_initialize_provider_Uncaught(config, backend) ==
    TryInitializeProvider(config, backend)

\* AIEngine._initialize_provider
_initialize_provider(config, backend) ==
    Caught(TryInitializeProvider(config, backend))

\* the engine object around the provider that _initialize_provider came to
\* (the engine's config is the shared Config object)
EngineWith(initialized) ==
    IF initialized.raised THEN initialized
    ELSE Return(Some([provider |-> initialized.value]), initialized.calls)

\* AIEngine.__init__
AIEngine(config, backend) == EngineWith(_initialize_provider(config, backend))

\* the first stage of generate_command: the active provider, when there is
\* one
ProviderStage(self, query, context, reply) ==
    IF self.provider # None
    THEN Logged("provider.generate_command", query,
                GeminiProvider_generate_command(Val(self.provider), query,
                                                context, reply))
    ELSE Return(None, <<>>)

\* the second stage run whatever the first gave: fallback is what the
\* fallback generator returns, and it is preferred
BothStages(query, first, fallback) ==
    Return(IF fallback # None THEN fallback ELSE first.value,
           first.calls
            \o <<Call("fallback_handler.generate_command", query, fallback)>>)

FallbackStage_Always(query, context, first) ==
    BothStages(query, first, fallback_handler(query, context))

\* the second stage of generate_command: the fallback generator, when the
\* first stage (which came to first) gave no command
FallbackStage(query, context, first) ==
    IF first.raised THEN first
    ELSE IF first.value = None
    THEN After(first.calls,
               Called("fallback_handler.generate_command", query,
                      fallback_handler(query, context)))
    ELSE first

\* AIEngine.generate_command
AIEngine_generate_command(self, query, context, reply) ==
    Logged("ai_engine.generate_command", query,
           FallbackStage(query, context,
                         ProviderStage(self, query, context, reply)))

\* the end of switch_provider: self is the engine with the new name already
\* written to its config, initialized what _initialize_provider came to
Switched(self, initialized) ==
    IF initialized.raised THEN initialized
    ELSE IF initialized.value # None
    THEN Return([self |-> [self EXCEPT !.provider = initialized.value],
                 returned |-> TRUE],
                initialized.calls)
    ELSE Return([self |-> self, returned |-> FALSE], initialized.calls)

\* AIEngine.switch_provider; self is [config, provider], and config is the
\* Config object that the engine shares with its owner
switch_provider(self, provider_name, backend) ==
    Switched([self EXCEPT !.config.ai_provider = provider_name],
             _initialize_provider(
                [self.config EXCEPT !.ai_provider = provider_name], backend))

(***************************************************************************)
(* executor.py                                                             *)
(***************************************************************************)
\* CommandExecutor.should_suggest_only
should_suggest_only(cmd) ==
    cmd.category \in {"interactive", "directory_change", "long_running"}

\* CommandExecutor.confirm_execution, given what the user types
confirm_execution(cmd, answer) == Lower(Strip(answer)) \in {"y", "yes"}

\* what the user may type at the prompt
Answers == {"y", " YES ", "n"}

\* subprocess.run: the process exits with a return code, or run raises
Exit(return_code) == [k |-> "exit", return_code |-> Some(return_code)]
TimeoutExpired == [k |-> "TimeoutExpired", return_code |-> None]
Runs == {Exit(0), Exit(1), TimeoutExpired}

\* models.py: ExecutionResult, reduced to success and return_code
ExecutionResult(success, return_code) ==
    [success |-> success, return_code |-> return_code]

\* CommandExecutor.execute_command
execute_command(cmd, shell_type, run) ==
    IF run.k = "exit"
    THEN ExecutionResult(Val(run.return_code) = 0, run.return_code)
    ELSE ExecutionResult(FALSE, None)

(***************************************************************************)
(* assistant.py                                                            *)
(***************************************************************************)
\* the assistant around the engine that AIEngine(config) came to
AssistantWith(config, engine) ==
    IF engine.raised THEN engine
    ELSE Return([safety_filter |->
                    [strict_mode |-> config.enable_safety_filter],
                 ai_engine |-> Val(engine.value)],
                engine.calls)

\* AITerminalAssistant.__init__: the filter and the engine it builds
AITerminalAssistant(config, backend) ==
    AssistantWith(config, AIEngine(config, backend))

\* what process_query hands back: the outcome, the command as it was
\* generated and the local variable command as it stands at the end
Finish(outcome, generated, cmd) ==
    [raised |-> outcome.raised, value |-> outcome.value,
     calls |-> outcome.calls, generated |-> generated, command |-> cmd]

\* process_query from the confirmation on: the command was asked for when
\* asks holds, confirmed is what the user made of it, result is what the
\* execution gives
Execute(cmd, generated, made, asks, confirmed, result) ==
    IF asks /\ ~confirmed
    THEN Finish(Return(FALSE,
                       made \o <<Call("executor.confirm_execution", cmd,
                                      confirmed)>>),
                generated, Some(cmd))
    ELSE Finish(Return(result.success,
                       made
                        \o (IF asks
                            THEN <<Call("executor.confirm_execution", cmd,
                                        confirmed)>>
                            ELSE <<>>)
                        \o <<Call("executor.execute_command", cmd, result)>>),
                generated, Some(cmd))

\* process_query with the routing left to the suggest_only flag alone
Unrouted(self, suggest_only, skip_confirmation, world, generated, cmd, made) ==
    IF suggest_only
    THEN Finish(Return(TRUE,
                       made \o <<Call("executor.suggest_command", cmd,
                                      None)>>),
                generated, Some(cmd))
    ELSE Execute(cmd, generated, made,
                 ~skip_confirmation /\ self.config.require_confirmation,
                 confirm_execution(cmd, world.answer),
                 execute_command(cmd, self.context.shell_type, world.run))

\* process_query from the routing on: the command cmd has passed the filter
Route(self, suggest_only, skip_confirmation, world, generated, cmd, made) ==
    IF suggest_only \/ should_suggest_only(cmd)
    THEN Finish(Return(TRUE,
                       made \o <<Call("executor.suggest_command", cmd,
                                      None)>>),
                generated, Some(cmd))
    ELSE Execute(cmd, generated, made,
                 ~skip_confirmation /\ self.config.require_confirmation,
                 confirm_execution(cmd, world.answer),
                 execute_command(cmd, self.context.shell_type, world.run))

\* process_query after the safety check that goes on whatever the verdict
SafetyIgnored(self, suggest_only, skip_confirmation, world, outcome, checked) ==
    Route(self, suggest_only, skip_confirmation, world, outcome.value,
          checked.command,
          outcome.calls \o <<Call("safety_filter.validate_command",
                                  Val(outcome.value), checked.ret)>>)

\* process_query after the safety check: outcome is what the generation
\* came to, checked what validate_command made of the generated command
SafetyChecked(self, suggest_only, skip_confirmation, world, outcome, checked) ==
    IF ~checked.ret[1]
    THEN Finish(Return(FALSE,
                       outcome.calls
                        \o <<Call("safety_filter.validate_command",
                                  Val(outcome.value), checked.ret)>>),
                outcome.value, Some(checked.command))
    ELSE Route(self, suggest_only, skip_confirmation, world, outcome.value,
               checked.command,
               outcome.calls \o <<Call("safety_filter.validate_command",
                                       Val(outcome.value), checked.ret)>>)

\* process_query after the generation, which came to outcome
Generated(self, suggest_only, skip_confirmation, world, outcome) ==
    IF outcome.raised THEN Finish(outcome, None, None)
    ELSE IF outcome.value = None
    THEN Finish(Return(FALSE, outcome.calls), None, None)
    ELSE SafetyChecked(self, suggest_only, skip_confirmation, world, outcome,
                       validate_command(self.safety_filter.strict_mode,
                                        Val(outcome.value)))

\* AITerminalAssistant.process_query.  world is what the surroundings do
\* during the call: the reply of the backend, the answer of the user, the
\* run of the subprocess.  (suggest_safer_alternative and the other helpers
\* called on the way only print.)
process_query(self, query, suggest_only, skip_confirmation, world) ==
    Generated(self, suggest_only, skip_confirmation, world,
              AIEngine_generate_command(self.ai_engine, query, self.context,
                                        world.reply))

(***************************************************************************)
(* The command texts of the model: concatenations of at most MaxWords of   *)
(* these words.                                                            *)
(***************************************************************************)
Words ==
    {"rm -rf /", "tmp", " ", "vim ", "cd ", "ping ", "shutdown", "REBOOT",
     "del /s", "format c:", "mkfs.", ":(){ :|:& };:", "dd if=x of=/dev/sda",
     "Stop-Computer"}

RECURSIVE TextsOf(_)
TextsOf(n) ==
    IF n = 0 THEN {""}
    ELSE LET shorter == TextsOf(n - 1) IN
         shorter \cup {t \o w : t \in shorter, w \in Words}

CommandTexts == TextsOf(MaxWords)

(***************************************************************************)
(* SafetyFilter on its own: a filter in either mode validates one command  *)
(* of any text and any prior category.                                     *)
(***************************************************************************)
InitSafety ==
    /\ safety_filter \in [strict_mode : BOOLEAN]
    /\ \E t \in CommandTexts, c \in CommandCategory :
        command = Some([Command(t, 100, None) EXCEPT !.category = c])
    /\ before = None
    /\ ret = None
    /\ assistant = None
    /\ request = None
    /\ calls = <<>>
    /\ pc = "filter"

ValidateCommand ==
    /\ ret = None
    /\ LET out == validate_command(safety_filter.strict_mode, Val(command)) IN
        /\ command' = Some(out.command)
        /\ ret' = Some(out.ret)
    /\ before' = command
    /\ UNCHANGED <<safety_filter, assistant, request, calls, pc>>

NextSafety == ValidateCommand

SpecSafety == InitSafety /\ [][NextSafety]_vars

(***************************************************************************)
(* Properties of SafetyFilter (checked under SpecSafety).                  *)
(***************************************************************************)
\* validate_command has returned
Validated == ret # None

\* the text of the command, the returned is_safe and the returned reason
Text == Val(command).raw_command
IsSafe == Val(ret)[1]
Reason == Val(ret)[2]

\* for every text of the model, the indices of all the rules whose pattern
\* matches it
MatchingOf ==
    [s \in CommandTexts |->
        LET t == Lower(s) IN {i \in 1..Len(rules) : search(rules[i], t)}]

Matching(command_str) == MatchingOf[command_str]

Lowest(m) == CHOOSE i \in m : \A j \in m : i <= j

\* the text has a first matching rule and it satisfies P
FirstRuleIs(P(_)) ==
    LET m == Matching(Text) IN m # {} /\ P(rules[Lowest(m)])

IsDangerous(rule) == rule.category = "dangerous"
IsCriticalOrHigh(rule) == rule.severity \in {"critical", "high"}
IsMedium(rule) == rule.severity = "medium"
IsHigh(rule) == rule.severity = "high"
IsRouted(rule) ==
    rule.category \in {"interactive", "directory_change", "long_running"}

\* C2: a command whose first matching rule has category dangerous is
\* blocked (is_safe = false) in strict and in non-strict mode, whatever the
\* severity of the rule, and its category is set to dangerous.
C2_DangerousIsBlocked ==
    (Validated /\ FirstRuleIs(IsDangerous))
        => (IsSafe = FALSE /\ Val(command).category = "dangerous")

\* a medium-severity dangerous rule has blocked a command in non-strict mode
C2_Witness ==
    /\ Validated
    /\ ~safety_filter.strict_mode
    /\ FirstRuleIs(IsDangerous) /\ FirstRuleIs(IsMedium)
    /\ IsSafe = FALSE

\* C3: in strict mode a command whose first matching rule has severity
\* critical or high is blocked, whatever the category of the rule.
C3_StrictBlocksCriticalAndHigh ==
    (Validated /\ safety_filter.strict_mode /\ FirstRuleIs(IsCriticalOrHigh))
        => IsSafe = FALSE

\* a high-severity rule written in capitals has blocked in strict mode
C3_Witness ==
    /\ Validated
    /\ safety_filter.strict_mode
    /\ FirstRuleIs(IsHigh)
    /\ Text # Lower(Text)
    /\ IsSafe = FALSE

\* the text holds "rm -rf /" and goes on with a blank, or ends there
RootDeleteStandsAlone(s) ==
    \E i \in 1..Len(s) :
        /\ Lit(s, i, "rm -rf /")
        /\ (IsSpace(At(s, i + 8)) \/ i + 8 = Len(s) + 1)

\* the call was blocked by the recursive-force-delete rule
BlockedByRootDelete ==
    /\ IsSafe = FALSE
    /\ check_command(Text) = Some(rules[1])
    /\ rules[1].description = "Recursive force delete from root"
    /\ rules[1].severity = "critical"
    /\ Contains(Val(Reason), rules[1].description)

\* C4 as claimed: every text that contains "rm -rf /", also one that goes on
\* after it with a path below root, is blocked by the recursive-force-delete
\* rule of severity critical.
C4_Original ==
    (Validated /\ Contains(Text, "rm -rf /")) => BlockedByRootDelete

\* C4 as amended: every text that contains "rm -rf /" followed by white
\* space or by the end of the text is blocked by the recursive-force-delete
\* rule of severity critical.
C4_RootDeleteIsBlocked ==
    (Validated /\ RootDeleteStandsAlone(Text)) => BlockedByRootDelete

\* "rm -rf /" followed by a blank and more text has been blocked
C4_Witness ==
    /\ Validated
    /\ \E i \in 1..Len(Text) :
        Lit(Text, i, "rm -rf /") /\ IsSpace(At(Text, i + 8))
    /\ BlockedByRootDelete

\* C5: check_command returns the rule of lowest index among the matching
\* rules, so a text that matches a dangerous rule and a later-listed
\* interactive, directory_change or long_running rule is classified
\* dangerous and blocked.
C5_FirstMatchWins ==
    Validated =>
        LET m == Matching(Text) IN
        /\ m = {} => check_command(Text) = None
        /\ m # {} =>
            /\ check_command(Text) = Some(rules[Lowest(m)])
            /\ Val(command).category = rules[Lowest(m)].category
        /\ (\E j \in m : IsDangerous(rules[j])) =>
            (Val(command).category = "dangerous" /\ IsSafe = FALSE)

\* a text that matches a dangerous rule and a later routed rule was blocked
C5_Witness ==
    /\ Validated
    /\ \E j, k \in Matching(Text) :
        j < k /\ IsDangerous(rules[j]) /\ IsRouted(rules[k])
    /\ Val(command).category = "dangerous"
    /\ IsSafe = FALSE

\* C6: a command whose text matches no rule gets (is_safe = true, reason =
\* none) and category safe, whatever its category was before the call, in
\* both modes.
C6_NoMatchIsSafe ==
    (Validated /\ Matching(Text) = {})
        => (ret = Some(<<TRUE, None>>) /\ Val(command).category = "safe")

\* a command that came in as dangerous and matches no rule was approved
C6_Witness ==
    /\ Validated
    /\ Matching(Text) = {}
    /\ Text # ""
    /\ Val(before).category = "dangerous"
    /\ Val(command).category = "safe"

\* C7: when the first matching rule has category interactive,
\* directory_change or long_running, validate_command returns is_safe = true
\* in both modes and changes nothing of the command but its category, which
\* becomes the category of the rule.
C7_RoutedIsNotBlocked ==
    (Validated /\ FirstRuleIs(IsRouted)) =>
        /\ ret = Some(<<TRUE, None>>)
        /\ command = Some([Val(before) EXCEPT
                !.category = rules[Lowest(Matching(Text))].category])

\* a strict filter has approved an interactive command
C7_Witness ==
    /\ Validated
    /\ safety_filter.strict_mode
    /\ FirstRuleIs(IsRouted)
    /\ Val(command).category = "interactive"
    /\ IsSafe = TRUE

\* C8 as claimed: the reason of every block holds the description and the
\* severity of the matched rule.
C8_Original ==
    (Validated /\ IsSafe = FALSE) =>
        LET rule == rules[Lowest(Matching(Text))] IN
        /\ Contains(Val(Reason), rule.description)
        /\ Contains(Val(Reason), rule.severity)

\* C8 as amended: the reason of every block holds the description of the
\* matched rule; it holds the severity exactly when the block is the one of
\* strict mode on a critical or high rule.
C8_BlockNamesTheRule ==
    (Validated /\ IsSafe = FALSE) =>
        LET rule == rules[Lowest(Matching(Text))] IN
        /\ Reason # None
        /\ Contains(Val(Reason), rule.description)
        /\ Contains(Val(Reason), rule.severity)
            <=> (safety_filter.strict_mode /\ IsCriticalOrHigh(rule))

\* a block by the category check: the reason names no severity
C8_Witness ==
    /\ Validated
    /\ IsSafe = FALSE
    /\ safety_filter.strict_mode
    /\ FirstRuleIs(IsMedium)
    /\ ~Contains(Val(Reason), "medium")

\* what a filter of the other mode returns for the command as it was
\* before this validation
OtherMode == validate_command(~safety_filter.strict_mode, Val(before))

\* C21: for the shipped rule set the block decision does not depend on
\* strict mode: for every command text a strict and a non-strict filter
\* return the same is_safe and set the same category (only the wording of
\* the reason may differ).
C21_ModeDoesNotDecide ==
    Validated =>
        /\ OtherMode.ret[1] = IsSafe
        /\ OtherMode.command.category = Val(command).category

\* a non-strict filter has blocked a command that a strict filter blocks
\* with another reason
C21_Witness ==
    /\ Validated
    /\ ~safety_filter.strict_mode
    /\ IsSafe = FALSE
    /\ OtherMode.ret[1] = FALSE
    /\ OtherMode.ret[2] # Reason

(***************************************************************************)
(* The assistant: it is built from a configuration in a shell context,     *)
(* then answers one query.                                                 *)
(***************************************************************************)
\* the provider names a configuration may carry ("llama" names no provider
\* type)
ProviderNames == AIProviderType \cup {"llama"}

\* the credential of the configuration: absent, empty or present
ApiKeys == {None, Some(""), Some("key")}

\* the contexts in which the assistant is built: every shell, outside a
\* virtual environment and inside one of conda
AssistantContexts ==
    {c \in ShellContexts :
        <<c.is_virtual_env, c.package_manager>>
            \in {<<FALSE, "pip">>, <<TRUE, "conda">>}}

Init ==
    /\ \E p \in ProviderNames, k \in ApiKeys, r \in BOOLEAN, f \in BOOLEAN :
        assistant = [config |-> Config(p, k, r, f), context |-> None,
                     ai_engine |-> None]
    /\ safety_filter = None
    /\ command = None
    /\ before = None
    /\ ret = None
    /\ request = None
    /\ calls = <<>>
    /\ pc = "new"

\* the state after the construction, which found the context found and came
\* to made
Constructed(found, made) ==
    /\ calls' = calls \o made.calls
    /\ pc' = IF made.raised THEN "failed" ELSE "ready"
    /\ assistant' =
        IF made.raised THEN assistant
        ELSE [assistant EXCEPT !.context = Some(found),
                               !.ai_engine = Some(made.value.ai_engine)]
    /\ safety_filter' =
        IF made.raised THEN safety_filter ELSE made.value.safety_filter

\* the state after process_query, which came to out
Returned(out) ==
    /\ calls' = calls \o out.calls
    /\ command' = out.command
    /\ before' = out.generated
    /\ ret' = IF out.raised THEN None ELSE Some(out.value)
    /\ pc' = IF out.raised THEN "raised" ELSE "returned"

\* AITerminalAssistant(config)
NewAssistant ==
    /\ pc = "new"
    /\ \E found \in AssistantContexts, backend \in Backends :
        Constructed(found, AITerminalAssistant(assistant.config, backend))
    /\ UNCHANGED <<command, before, ret, request>>

\* assistant.process_query(query, suggest_only, skip_confirmation)
ProcessQuery ==
    /\ pc = "ready"
    /\ \E query \in Queries, suggest_only \in BOOLEAN,
          skip_confirmation \in BOOLEAN,
          reply \in (IF Val(assistant.ai_engine).provider = None
                     THEN {NoResponse} ELSE Replies),
          answer \in Answers, run \in Runs :
        /\ request' = Some([query |-> query, suggest_only |-> suggest_only,
                            skip_confirmation |-> skip_confirmation])
        /\ Returned(process_query(
                [config |-> assistant.config,
                 context |-> Val(assistant.context),
                 safety_filter |-> safety_filter,
                 ai_engine |-> Val(assistant.ai_engine)],
                query, suggest_only, skip_confirmation,
                [reply |-> reply, answer |-> answer, run |-> run]))
    /\ UNCHANGED <<assistant, safety_filter>>

Next == NewAssistant \/ ProcessQuery

Spec == Init /\ [][Next]_vars

(***************************************************************************)
(* Properties of the assistant and its engine (checked under Spec).        *)
(***************************************************************************)
\* the places in the trace of the calls of callee
CallsOf(callee) == {i \in DOMAIN calls : calls[i].callee = callee}

ProviderCalls == CallsOf("provider.generate_command")
FallbackCalls == CallsOf("fallback_handler.generate_command")
EngineCalls == CallsOf("ai_engine.generate_command")

\* the calls of validate_command that returned is_safe = false
Blocks ==
    {i \in CallsOf("safety_filter.validate_command") :
        calls[i].result[1] = FALSE}

\* C1: when validate_command returns is_safe = false for the generated
\* command, process_query makes no call of execute_command and no call of
\* suggest_command, and it returns False, whatever the query, the reply of
\* the provider and the flags.
C1_BlockedIsNeverRun ==
    Blocks # {} =>
        /\ CallsOf("executor.execute_command") = {}
        /\ CallsOf("executor.suggest_command") = {}
        /\ pc = "returned"
        /\ ret = Some(FALSE)

\* a command was blocked although nothing else stood between it and its
\* execution: no suggest_only, no confirmation, a filter that is not strict
C1_Witness ==
    /\ Blocks # {}
    /\ pc = "returned"
    /\ ~Val(request).suggest_only
    /\ Val(request).skip_confirmation
    /\ ~assistant.config.require_confirmation
    /\ ~safety_filter.strict_mode
    /\ ret = Some(FALSE)

\* C9: generate_command runs at most two stages in a fixed order.  The
\* provider is called exactly when one is active, at most once and before
\* the fallback; the fallback is called at most once, exactly when no
\* provider is active or the provider returned none; the result is the
\* Command of the provider when it returned one, else what the fallback
\* returned.
C9_TwoStagesInOrder ==
    \A e \in EngineCalls :
        LET P == {i \in ProviderCalls : i < e}
            F == {i \in FallbackCalls : i < e}
        IN  /\ Cardinality(P) <= 1
            /\ Cardinality(F) <= 1
            /\ P # {} <=> Val(assistant.ai_engine).provider # None
            /\ \A i \in P, j \in F : i < j
            /\ F # {} <=> (P = {} \/ \E i \in P : calls[i].result = None)
            /\ calls[e].result =
                IF \E i \in P : calls[i].result # None
                THEN calls[CHOOSE i \in P : TRUE].result
                ELSE calls[CHOOSE j \in F : TRUE].result

\* the provider was asked and returned none, then the fallback was asked and
\* its Command became the result
C9_Witness ==
    \E e \in EngineCalls, i \in ProviderCalls, j \in FallbackCalls :
        /\ i < j /\ j < e
        /\ calls[i].result = None
        /\ calls[j].result # None
        /\ calls[e].result = calls[j].result

\* what can go wrong with the provider while the engine is constructed
UnknownName == assistant.config.ai_provider \notin AIProviderType
Unregistered ==
    /\ assistant.config.ai_provider \in AIProviderType
    /\ assistant.config.ai_provider \notin DOMAIN PROVIDERS
NoCredential ==
    /\ assistant.config.ai_provider \in AIProviderType
    /\ \/ _get_api_key(assistant.config, assistant.config.ai_provider) = None
       \/ _get_api_key(assistant.config, assistant.config.ai_provider)
            = Some("")
ConstructorRaised ==
    \E i \in CallsOf("GeminiProvider") : calls[i].result = "raise"
ProbeRaised ==
    \E i \in CallsOf("provider.is_available") : calls[i].arg = "raise"
ProbeFailed ==
    \E i \in CallsOf("provider.is_available") : calls[i].result = FALSE

ProviderFailure ==
    \/ UnknownName
    \/ Unregistered
    \/ NoCredential
    \/ ConstructorRaised
    \/ ProbeRaised
    \/ ProbeFailed

\* C10: the construction of the engine never raises.  When the provider
\* name is unknown, its class is not registered, its credential is absent,
\* its constructor raises, or its probe raises or reports it unavailable,
\* the engine holds no provider, and generate_command then returns what the
\* fallback generator returns for the query and does not raise.
C10_ConstructionNeverRaises ==
    /\ pc # "failed"
    /\ (pc # "new" /\ ProviderFailure) =>
        /\ Val(assistant.ai_engine).provider = None
        /\ pc # "raised"
        /\ \A e \in EngineCalls :
            calls[e].result =
                fallback_handler(Val(request).query, Val(assistant.context))

\* the constructor of the provider raised, the engine was built all the
\* same, and generate_command returned the Command of the fallback
C10_Witness ==
    /\ ConstructorRaised
    /\ pc = "returned"
    /\ Val(assistant.ai_engine).provider = None
    /\ \E e \in EngineCalls :
        /\ calls[e].result # None
        /\ calls[e].result =
            fallback_handler(Val(request).query, Val(assistant.context))

\* the categories that are suggested and not run
Routed == {"interactive", "directory_change", "long_running"}

\* the calls of validate_command before place x of the trace that returned
\* is_safe = true for the command text of the call at x
ClearedBefore(x) ==
    {v \in CallsOf("safety_filter.validate_command") :
        /\ v < x
        /\ calls[v].result[1] = TRUE
        /\ calls[v].arg.raw_command = calls[x].arg.raw_command}

\* C20: every call of execute_command comes, in the same process_query
\* call, after a validate_command that returned is_safe = true and left
\* the category of the command safe; a command of category interactive,
\* directory_change or long_running is not executed, and is suggested when
\* it has passed the filter; and when require_confirmation is true and
\* skip_confirmation is false, execute_command comes after a
\* confirm_execution that returned true.
C20_ExecutionIsCleared ==
    /\ \A x \in CallsOf("executor.execute_command") :
        /\ ClearedBefore(x) # {}
        /\ calls[x].arg.category = "safe"
        /\ (/\ assistant.config.require_confirmation
            /\ ~Val(request).skip_confirmation) =>
                \E c \in CallsOf("executor.confirm_execution") :
                    /\ c < x
                    /\ calls[c].result = TRUE
                    /\ calls[c].arg = calls[x].arg
                    /\ \E v \in ClearedBefore(x) : v < c
    /\ (command # None /\ Val(command).category \in Routed) =>
        /\ CallsOf("executor.execute_command") = {}
        /\ Blocks = {} => CallsOf("executor.suggest_command") # {}

\* a command was validated, confirmed by the user and then executed
C20_Witness ==
    /\ pc = "returned"
    /\ assistant.config.require_confirmation
    /\ ~Val(request).skip_confirmation
    /\ \E x \in CallsOf("executor.execute_command") :
        /\ ClearedBefore(x) # {}
        /\ \E c \in CallsOf("executor.confirm_execution") :
            c < x /\ calls[c].result = TRUE

(***************************************************************************)
(* The engine on its own: AIEngine(config), then any number of             *)
(* switch_provider calls, then one generate_command call.                  *)
(***************************************************************************)
\* what the backend may answer to a generation
EngineReplies ==
    Replies \cup {Response(Some(f.text)) : f \in FencedReplies}

InitEngine ==
    /\ \E p \in ProviderNames, k \in ApiKeys :
        assistant = [config |-> Config(p, k, TRUE, TRUE), context |-> None,
                     ai_engine |-> None]
    /\ safety_filter = None
    /\ command = None
    /\ before = None
    /\ ret = None
    /\ request = None
    /\ calls = <<>>
    /\ pc = "new"

\* the engine of the state as its methods see it
Engine ==
    [config |-> assistant.config,
     provider |-> Val(assistant.ai_engine).provider]

\* the state after AIEngine(config), which came to made
EngineConstructed(made) ==
    /\ calls' = made.calls
    /\ pc' = IF made.raised THEN "failed" ELSE "ready"
    /\ assistant' =
        IF made.raised THEN assistant
        ELSE [assistant EXCEPT !.ai_engine = made.value]

\* AIEngine(config)
NewEngine ==
    /\ pc = "new"
    /\ \E backend \in Backends :
        EngineConstructed(AIEngine(assistant.config, backend))
    /\ UNCHANGED <<safety_filter, command, before, ret, request>>

\* the state after switch_provider, which came to out
EngineSwitched(out) ==
    /\ calls' = out.calls
    /\ pc' = IF out.raised THEN "raised" ELSE "ready"
    /\ ret' = IF out.raised THEN None ELSE Some(out.value.returned)
    /\ assistant' =
        IF out.raised THEN assistant
        ELSE [assistant EXCEPT
                !.config = out.value.self.config,
                !.ai_engine = Some([provider |-> out.value.self.provider])]

\* engine.switch_provider(provider_name)
SwitchProvider ==
    /\ pc = "ready"
    /\ \E provider_name \in ProviderNames, backend \in Backends :
        /\ request' = Some([op |-> "switch_provider",
                            provider_name |-> provider_name])
        /\ EngineSwitched(switch_provider(Engine, provider_name, backend))
    /\ UNCHANGED <<safety_filter, command, before>>

\* the state after generate_command, which came to out
EngineGenerated(out) ==
    /\ calls' = out.calls
    /\ pc' = IF out.raised THEN "raised" ELSE "generated"
    /\ ret' = IF out.raised THEN None ELSE Some(out.value)

\* engine.generate_command(query, context)
GenerateCommand ==
    /\ pc = "ready"
    /\ \E query \in Queries, context \in AssistantContexts,
          reply \in (IF Engine.provider = None
                     THEN {NoResponse} ELSE EngineReplies) :
        /\ request' = Some([op |-> "generate_command", query |-> query,
                            context |-> context, reply |-> reply])
        /\ EngineGenerated(
                AIEngine_generate_command(Engine, query, context, reply))
    /\ UNCHANGED <<assistant, safety_filter, command, before>>

NextEngine == NewEngine \/ SwitchProvider \/ GenerateCommand

SpecEngine == InitEngine /\ [][NextEngine]_vars

(***************************************************************************)
(* The fallback generator on its own: one call of generate_command or of   *)
(* _adjust_for_shell on inputs drawn from the sets below.                  *)
(***************************************************************************)
\* ShellContext is a plain dataclass: any shell kind with any environment
\* flag and any manager name ("npm" stands for a name the code does not know)
PackageManagers == {"pip", "conda", "poetry", "pipenv", "npm"}

FallbackContexts ==
    {ShellContext(s, v, m) :
        s \in ShellType, v \in BOOLEAN, m \in PackageManagers}

FallbackQueries ==
    {"", "hello", "install pandas", "Install the package foo", "pip module",
     "install the pandas library", "add numpy and requests",
     "get the library", "setup a package", "conda dependency",
     "pip install --upgrade my-lib_2 module", "PLEASE ADD   Flask-2",
     "list all files", "list files", "make directory -p x",
     "create a file named a.txt", "delete the file x", "copy a to b",
     "show running processes", " Clear The Screen ",
     "list files of the pip package", "delete the file pip.module",
     "list files in pandas setup", "Create a file named Notes.TXT",
     "copy Main.py to Backup"}

\* the words that fill the fields of a template
TemplateArgs == {"x", "-p x", "a.txt"}

\* the commands that the templates of command_patterns give
TemplateCommands ==
    {format(command_patterns[k][2], <<a, b>>) :
        k \in DOMAIN command_patterns, a \in TemplateArgs, b \in TemplateArgs}

\* the command texts handed to _adjust_for_shell
AdjustTexts ==
    TemplateCommands
        \cup {"", "ls -la /tmp", "rm a; rm b", "cat x | grep rm", "rmdir d",
              "echo touch", "dir /a", "Get-ChildItem -Force", "mkdir d",
              "pwd", "clear", "ps aux"}

InitFallback ==
    /\ assistant = None
    /\ safety_filter = None
    /\ command = None
    /\ before = None
    /\ ret = None
    /\ request = None
    /\ calls = <<>>
    /\ pc = "idle"

\* handler.generate_command(query, context)
FallbackGenerate ==
    /\ pc = "idle"
    /\ \E query \in FallbackQueries, context \in FallbackContexts :
        /\ request' = Some([op |-> "generate_command", query |-> query,
                            context |-> context])
        /\ ret' = Some(fallback_handler(query, context))
    /\ pc' = "done"
    /\ UNCHANGED <<assistant, safety_filter, command, before, calls>>

\* handler._adjust_for_shell(cmd, shell_type)
AdjustForShell ==
    /\ pc = "idle"
    /\ \E cmd \in AdjustTexts, shell_type \in ShellType :
        /\ request' = Some([op |-> "_adjust_for_shell", cmd |-> cmd,
                            shell_type |-> shell_type])
        /\ ret' = Some(_adjust_for_shell(cmd, shell_type))
    /\ pc' = "done"
    /\ UNCHANGED <<assistant, safety_filter, command, before, calls>>

NextFallback == FallbackGenerate \/ AdjustForShell

SpecFallback == InitFallback /\ [][NextFallback]_vars

(***************************************************************************)
(* Properties of the fallback generator (checked under SpecFallback).      *)
(***************************************************************************)
\* generate_command has returned for a query it takes for a package install
Installing ==
    /\ pc = "done"
    /\ Val(request).op = "generate_command"
    /\ _is_package_install(Strip(Lower(Val(request).query)))

\* it has returned an install command
Installed == Installing /\ ret # Some(None)

\* the name that the install command was built for, which its explanation
\* carries
InstalledName ==
    From(Val(Val(Val(ret)).explanation),
         Len("Install Python package: ") + 1)

\* the install command of a manager
ManagerCommand(manager) ==
    CASE manager = "conda" -> "conda install -y "
      [] manager = "poetry" -> "poetry add "
      [] manager = "pipenv" -> "pipenv install "
      [] OTHER -> "pip install "

\* C14 as stated: the install command is chosen by context.package_manager
\* alone, with confidence 0.8.
C14_Original ==
    Installed =>
        /\ Val(Val(ret)).raw_command =
                ManagerCommand(Val(request).context.package_manager)
                    \o InstalledName
        /\ Val(Val(ret)).confidence = 80

\* C14: the install command is chosen by context.package_manager when
\* context.is_virtual_env is true (conda, poetry, pipenv, anything else
\* pip), and it is "pip install <name>" whatever the manager when
\* is_virtual_env is false; the confidence is 0.8.
C14_ManagerInsideVirtualEnv ==
    Installed =>
        /\ Val(Val(ret)).raw_command =
                (IF Val(request).context.is_virtual_env
                 THEN ManagerCommand(Val(request).context.package_manager)
                 ELSE "pip install ") \o InstalledName
        /\ Val(Val(ret)).confidence = 80

\* pandas in a virtual environment of poetry
C14_Witness ==
    /\ Installed
    /\ Val(request).query = "install pandas"
    /\ Val(request).context.is_virtual_env
    /\ Val(request).context.package_manager = "poetry"
    /\ Val(Val(ret)).raw_command = "poetry add pandas"

\* the query as generate_command reads it
QueryLower == Strip(Lower(Val(request).query))

\* the listed packages whose name stands in the query, and the extraction
\* patterns found in it
KnownIn(query) ==
    {k \in DOMAIN python_packages : Contains(query, python_packages[k])}
ExtractableBy(query) ==
    {k \in DOMAIN package_patterns :
        re_search(package_patterns[k], query) # None}

Least(S) == CHOOSE k \in S : \A j \in S : k <= j

\* C15: for a query taken for a package install, generate_command returns
\* none exactly when no listed package name stands in the query and no
\* extraction pattern is found in it; otherwise the command installs the
\* first listed package that stands in the query, else what the first
\* pattern found has captured, and this name is not empty.
C15_NameOrNone ==
    Installing =>
        /\ ret = Some(None) <=>
                (KnownIn(QueryLower) = {} /\ ExtractableBy(QueryLower) = {})
        /\ ret # Some(None) =>
            /\ InstalledName # ""
            /\ InstalledName =
                IF KnownIn(QueryLower) # {}
                THEN python_packages[Least(KnownIn(QueryLower))]
                ELSE Val(re_search(
                        package_patterns[Least(ExtractableBy(QueryLower))],
                        QueryLower))[1]
            /\ \E prefix \in {ManagerCommand(m) : m \in PackageManagers} :
                Val(Val(ret)).raw_command = prefix \o InstalledName

\* a listed package and another word after "install": the listed one wins
C15_Witness ==
    /\ Installed
    /\ Val(request).query = "install the pandas library"
    /\ InstalledName = "pandas"

\* _adjust_for_shell has returned
Adjusted == pc = "done" /\ Val(request).op = "_adjust_for_shell"

\* the entries of the table of the shell whose key the command starts with
PrefixesOf(cmd, shell_type) ==
    IF shell_type \in {"cmd", "powershell"}
    THEN {k \in DOMAIN replacements(shell_type) :
            StartsWith(cmd, replacements(shell_type)[k][1])}
    ELSE {}

\* C17: for cmd and powershell the adaptation puts, in place of the first
\* key of the table (in table order) that the command starts with, its
\* native word, and keeps the text after the key as it is; when the
\* command starts with no key, and for bash, zsh and fish, the command
\* comes back unchanged.
C17_OnePrefixReplaced ==
    Adjusted =>
        Val(ret) =
            IF PrefixesOf(Val(request).cmd, Val(request).shell_type) = {}
            THEN Val(request).cmd
            ELSE replacements(Val(request).shell_type)[
                    Least(PrefixesOf(Val(request).cmd,
                                     Val(request).shell_type))][2]
                 \o From(Val(request).cmd,
                         Len(replacements(Val(request).shell_type)[
                                Least(PrefixesOf(Val(request).cmd,
                                                 Val(request).shell_type))][1])
                            + 1)

\* "ls -la /tmp" for cmd
C17_Witness ==
    /\ Adjusted
    /\ Val(request).cmd = "ls -la /tmp"
    /\ Val(request).shell_type = "cmd"
    /\ Val(ret) = "dir /a /tmp"

\* C18: for cmd and powershell every output of the adaptation is a fixed
\* point of it: adapting an adapted command changes nothing.
C18_AdaptedIsFixedPoint ==
    (Adjusted /\ Val(request).shell_type \in {"cmd", "powershell"}) =>
        _adjust_for_shell(Val(ret), Val(request).shell_type) = Val(ret)

\* generate_command has returned
Answered == pc = "done" /\ Val(request).op = "generate_command"

\* the phrases of the basic-command table of the shell that stand in the
\* query, and the templates whose pattern is found in it
BasicIn(shell_type, query) ==
    {k \in DOMAIN get_basic_commands(shell_type) :
        Contains(query, get_basic_commands(shell_type)[k][1])}
TemplatesIn(query) ==
    {k \in DOMAIN command_patterns :
        re_search(command_patterns[k][1], query) # None}

\* a stage after the package stage has a match for the query
StageMatches ==
    \/ BasicIn(Val(request).context.shell_type, QueryLower) # {}
    \/ TemplatesIn(QueryLower) # {}

\* the query is taken for a package install and carries no package name
NamelessInstall ==
    /\ Installing
    /\ KnownIn(QueryLower) = {}
    /\ ExtractableBy(QueryLower) = {}

\* C24 as stated: every query that contains a basic-command phrase of the
\* shell, or that matches a template, yields a Command, whatever other
\* words it contains.
C24_Original == (Answered /\ StageMatches) => ret # Some(None)

\* C24: every query that contains a basic-command phrase of the shell, or
\* that matches a template, yields a Command, unless the query is taken for
\* a package install and no package name can be extracted from it; only
\* then, or when no stage matches, generate_command returns none.
C24_MatchYieldsCommandUnlessNamelessInstall ==
    (Answered /\ StageMatches /\ ~NamelessInstall) => ret # Some(None)

\* a query with a basic-command phrase, an install verb and a listed package
\* name has given a command
C24_Witness ==
    /\ Answered
    /\ BasicIn(Val(request).context.shell_type, QueryLower) # {}
    /\ Installing
    /\ ret # Some(None)

\* the query reached the template stage: it is no package install and holds
\* no basic-command phrase, and a pattern is found in it
TemplateStage ==
    /\ Answered
    /\ ~Installing
    /\ BasicIn(Val(request).context.shell_type, QueryLower) = {}
    /\ TemplatesIn(QueryLower) # {}

\* the stretches of the query, as typed, that read g when folded to lower
\* case
TypedAs(g, query) ==
    {s \in {SubSeq(query, p, p + Len(g) - 1) :
                p \in 1..(Len(query) - Len(g) + 1)} : Lower(s) = g}

\* the command is template k filled with the groups as the query has them
FilledAsTyped(k, groups, query, shell_type, cmd) ==
    \E a \in TypedAs(groups[1], query),
       b \in (IF Len(groups) > 1 THEN TypedAs(groups[2], query) ELSE {""}) :
        cmd = _adjust_for_shell(format(command_patterns[k][2], <<a, b>>),
                                shell_type)

\* C25: in the template stage the text captured from the query is put into
\* the template exactly as the user typed it, character for character and
\* with its letter case, in the positional order of the capture groups.
C25_CapturesAsTyped ==
    TemplateStage =>
        LET k == Least(TemplatesIn(QueryLower))
            groups == Val(re_search(command_patterns[k][1], QueryLower))
        IN  groups # <<>> =>
                FilledAsTyped(k, groups, Val(request).query,
                              Val(request).context.shell_type,
                              Val(Val(ret)).raw_command)

(***************************************************************************)
(* Properties of the engine (checked under SpecEngine).                    *)
(***************************************************************************)
\* generate_command was called, with a provider active or not
Asked == pc \in {"generated", "raised"}
AskedWithProvider == Asked /\ Engine.provider # None
AskedWithoutProvider == Asked /\ Engine.provider = None

\* the backend failed: its call raised, or it gave no response, or a
\* response without text
Fault(reply) ==
    \/ reply.k \in {"raise", "none"}
    \/ reply.text = None
    \/ reply.text = Some("")

\* C11: a fault of the backend during the generation (an exception of the
\* call, a missing response, a response without text or with an empty
\* text) does not leave generate_command as an exception: the provider
\* returns none, and the fallback generator is called after it in the same
\* call of generate_command, whose result is the result of the fallback.
C11_FaultFallsThrough ==
    (AskedWithProvider /\ Fault(Val(request).reply)) =>
        /\ pc = "generated"
        /\ \E i \in ProviderCalls, j \in FallbackCalls :
            /\ i < j
            /\ calls[i].result = None
            /\ ret = Some(calls[j].result)

\* the call of the backend raised, and the command of the fallback came back
C11_Witness ==
    /\ AskedWithProvider
    /\ Val(request).reply = BackendError
    /\ pc = "generated"
    /\ ret # Some(None)
    /\ FallbackCalls # {}

\* C12: after the construction and after every switch_provider call, the
\* engine holds a provider only if config.ai_provider names a registered
\* provider whose credential is present, and it holds none when the
\* initialisation of the configured provider has just failed.
C12_ProviderMatchesConfig ==
    pc = "ready" =>
        /\ Engine.provider # None =>
            /\ assistant.config.ai_provider \in DOMAIN PROVIDERS
            /\ ~NoCredential
        /\ ProviderFailure => Engine.provider = None

\* C13 as stated: "list all files" without a provider in a bash context
\* gives "ls -la" with the confidence 0.6 of the basic-command table.
C13_Original ==
    (/\ AskedWithoutProvider
     /\ Val(request).query = "list all files"
     /\ Val(request).context.shell_type = "bash") =>
        /\ pc = "generated"
        /\ ret # Some(None)
        /\ Val(Val(ret)).raw_command = "ls -la"
        /\ Val(Val(ret)).confidence = 60

\* C13: "list all files" without a provider in a bash context gives
\* "ls -la" from the pattern stage, with confidence 0.7: no key of the
\* basic-command table stands in the query.
C13_ListAllFilesIsAPattern ==
    (/\ AskedWithoutProvider
     /\ Val(request).query = "list all files"
     /\ Val(request).context.shell_type = "bash") =>
        /\ pc = "generated"
        /\ \A k \in DOMAIN get_basic_commands("bash") :
            ~Contains("list all files", get_basic_commands("bash")[k][1])
        /\ ret = Some(Some([raw_command |-> "ls -la", category |-> "safe",
                            confidence |-> 70,
                            explanation |->
                                Some("Pattern match for: list all files")]))

C13_Witness ==
    /\ AskedWithoutProvider
    /\ pc = "generated"
    /\ Val(request).query = "list all files"
    /\ Val(request).context.shell_type = "bash"
    /\ Val(Val(ret)).raw_command = "ls -la"

\* C19: when the response wraps a command in a fence tagged with a shell
\* kind (bash, powershell, cmd, zsh, fish), with whitespace before it or
\* further lines after it or not, the raw_command of the provider is the
\* first line of the wrapped command.
C19_FenceIsStripped ==
    (AskedWithProvider /\ pc = "generated") =>
        \A f \in FencedReplies :
            Val(request).reply = Response(Some(f.text)) =>
                \E i \in ProviderCalls :
                    /\ calls[i].result # None
                    /\ Val(calls[i].result).raw_command = f.first

\* a step of switch_provider that returned False
SwitchFailed == pc = "ready" /\ pc' = "ready" /\ ret' = Some(FALSE)

\* C22: a switch_provider call that returns False (unknown name,
\* unregistered class, missing credential or failed probe) leaves the
\* engine as it was: the active provider and config.ai_provider keep the
\* values they had before the call.
C22_FailedSwitchKeepsEngine == [][SwitchFailed => Engine' = Engine]_vars

\* C23: generate_command never returns a Command whose raw_command is the
\* empty string: a response that is empty after the cleanup (only fence
\* markers, only whitespace) counts as the provider yielding nothing, so
\* the provider's result is none and the fallback generator is attempted.
C23_NoEmptyCommand ==
    pc = "generated" =>
        /\ ret # Some(None) => Val(Val(ret)).raw_command # ""
        /\ \A i \in ProviderCalls :
            calls[i].result # None =>
                Val(calls[i].result).raw_command # ""

====
